---- MODULE Spec2Model ----
(***************************************************************************)
(* DeltaSnapshot of src/providers/database.ts: the snapshot built from one *)
(* raw database event, its child / previous / current views and the reads  *)
(* made through them.                                                      *)
(*                                                                         *)
(* Strings are sequences of atoms.  An atom is a one-character string, or  *)
(* one of the words of a resource string ("projects", "instances", ...),   *)
(* which no other atom overlaps; "/" is always an atom of its own.         *)
(* JSON values are tagged records, see the constructors below.             *)
(***************************************************************************)
EXTENDS Integers, Sequences, FiniteSets, TLC

\* ------------------------------------------------------------------ values

\* JS undefined where a string is expected (an unset path, a missing argument).
Undef == <<"<undefined>">>

\* A string that JS takes for false: undefined or ''.
Falsy(s) == s = Undef \/ s = <<>>

VUndef == [t |-> "undefined"]
VNull == [t |-> "null"]
Num(n) == [t |-> "number", n |-> n]
Str(s) == [t |-> "string", s |-> s]
\* a plain object: o maps each own key (a string) to its value
Obj(o) == [t |-> "object", o |-> o]
\* an array: a maps each filled index to its element (a hole has none)
Arr(a, n) == [t |-> "array", a |-> a, length |-> n]

IsNullish(v) == v.t = "null" \/ v.t = "undefined"
IsObj(v) == v.t = "object"
Keys(v) == IF IsObj(v) THEN DOMAIN v.o ELSE {}

Digits == <<"0", "1", "2", "3", "4", "5", "6", "7", "8", "9">>
IsDigit(c) == \E i \in 1..10 : Digits[i] = c
DigitVal(c) == (CHOOSE i \in 1..10 : Digits[i] = c) - 1

\* ------------------------------------------------- path helpers (../utils)

RECURSIVE Split(_, _)
\* s.split(sep): the segments of s between the separators, empty ones kept
Split(s, sep) ==
  IF \A i \in 1..Len(s) : s[i] # sep THEN <<s>>
  ELSE LET i == CHOOSE j \in 1..Len(s) : s[j] = sep /\ \A k \in 1..(j-1) : s[k] # sep
       IN <<SubSeq(s, 1, i-1)>> \o Split(SubSeq(s, i+1, Len(s)), sep)

RECURSIVE Join(_, _)
\* parts.join(sep)
Join(parts, sep) ==
  IF parts = <<>> THEN <<>>
  ELSE IF Len(parts) = 1 THEN parts[1]
  ELSE parts[1] \o <<sep>> \o Join(Tail(parts), sep)

\* the canonical form of a path: no leading and no trailing slash
normalizePath(path) ==
  IF Falsy(path) THEN <<>>
  ELSE LET a == IF path[1] = "/" THEN Tail(path) ELSE path
           b == IF a # <<>> /\ a[Len(a)] = "/" THEN SubSeq(a, 1, Len(a)-1) ELSE a
       IN b

\* the segments of a path
pathParts(path) ==
  IF Falsy(path) \/ path = <<"/">> THEN <<>>
  ELSE Split(normalizePath(path), "/")

\* the path made of the segments of base followed by those of child
joinPath(base, child) == Join(pathParts(base) \o pathParts(child), "/")

RECURSIVE valAtParts(_, _)
valAtParts(source, parts) ==
  IF parts = <<>> THEN source
  ELSE IF IsObj(source) /\ parts[1] \in DOMAIN source.o
       THEN valAtParts(source.o[parts[1]], Tail(parts))
       ELSE VUndef

\* the value of the tree at a path, undefined where the tree has none
valAt(source, path) == valAtParts(source, pathParts(path))

RECURSIVE applyChange(_, _)
\* the base tree with a sparse delta applied
applyChange(src, dest) ==
  IF ~IsObj(dest) THEN dest
  ELSE Obj([k \in Keys(src) \cup Keys(dest) |->
              IF k \in Keys(dest)
              THEN applyChange(IF k \in Keys(src) THEN src.o[k] ELSE VUndef, dest.o[k])
              ELSE src.o[k]])

\* ------------------------------------------------------- lodash, as used

RECURSIVE ToStr(_)
\* String(n) of a natural number
ToStr(n) == IF n < 10 THEN <<Digits[n+1]>> ELSE ToStr(n \div 10) \o <<Digits[(n % 10) + 1]>>

RECURSIVE ToNum(_)
\* Number(key) of a digit string
ToNum(s) == IF s = <<>> THEN 0 ELSE 10 * ToNum(SubSeq(s, 1, Len(s)-1)) + DigitVal(s[Len(s)])

\* /^(0|[1-9]\d*)$/.test(key)
integerRegExp(key) ==
  \/ key = <<"0">>
  \/ /\ Len(key) >= 1
     /\ IsDigit(key[1]) /\ key[1] # "0"
     /\ \A i \in 2..Len(key) : IsDigit(key[i])

\* value[key] of a JSON value (own properties only): an object's own key, a
\* string's characters and its length; undefined otherwise
Prop(value, key) ==
  CASE value.t = "object" -> IF key \in DOMAIN value.o THEN value.o[key] ELSE VUndef
    [] value.t = "string" ->
         IF key = <<"length">> THEN Num(Len(value.s))
         ELSE IF integerRegExp(key) /\ ToNum(key) < Len(value.s)
              THEN Str(<<value.s[ToNum(key) + 1]>>)
              ELSE VUndef
    [] OTHER -> VUndef

RECURSIVE baseGet(_, _)
\* lodash baseGet: object = object[key] for each key while object != null
baseGet(object, parts) ==
  IF parts = <<>> THEN object
  ELSE IF IsNullish(object) THEN VUndef
  ELSE baseGet(Prop(object, parts[1]), Tail(parts))

\* _.get(object, path, defaultValue)
get(object, parts, defaultValue) ==
  LET result == baseGet(object, parts)
  IN IF result.t = "undefined" THEN defaultValue ELSE result

\* _.cloneDeep: a structural copy; values here have no identity
cloneDeep(value) == value

\* _.isPlainObject
isPlainObject(value) == value.t = "object"

\* lodash isArrayLike of a non-function: value.length is a valid array length
isArrayLike(value) ==
  LET l == Prop(value, <<"length">>)
  IN ~IsNullish(value) /\ l.t = "number" /\ l.n >= 0

RECURSIVE KeyOrder(_)
\* the keys of a set in one iteration order
KeyOrder(S) ==
  IF S = {} THEN <<>>
  ELSE LET k == CHOOSE x \in S : TRUE IN <<k>> \o KeyOrder(S \ {k})

\* _.keys of a plain object: its own keys
keys(value) == KeyOrder(Keys(value))

\* the keys _.forEach(node, f) passes to f: the indices below node.length for an
\* array-like node (f then gets String(index)), the own keys otherwise
forEachKeys(node) ==
  IF isArrayLike(node)
  THEN [i \in 1..Prop(node, <<"length">>).n |-> ToStr(i - 1)]
  ELSE keys(node)

RECURSIVE Scan(_, _)
\* the loop body of _checkAndConvertToArray over the keys ks, from state st
Scan(ks, st) ==
  IF ks = <<>> THEN st
  ELSE LET key == ks[1]
           hit == st.allIntegerKeys /\ integerRegExp(key)
       IN Scan(Tail(ks),
               [numKeys |-> st.numKeys + 1,
                maxKey |-> IF hit /\ ToNum(key) > st.maxKey THEN ToNum(key) ELSE st.maxKey,
                allIntegerKeys |-> hit])

RECURSIVE _checkAndConvertToArray(_)
_checkAndConvertToArray(node) ==
  IF IsNullish(node) THEN VNull
  ELSE IF node.t # "object" THEN node
  ELSE LET ks == forEachKeys(node)
           obj == [k \in {ks[i] : i \in 1..Len(ks)} |-> _checkAndConvertToArray(Prop(node, k))]
           st == Scan(ks, [numKeys |-> 0, maxKey |-> 0, allIntegerKeys |-> TRUE])
       IN IF st.allIntegerKeys /\ st.maxKey < 2 * st.numKeys
          THEN Arr([i \in {ToNum(k) : k \in DOMAIN obj} |->
                      obj[CHOOSE k \in DOMAIN obj : ToNum(k) = i]],
                   st.maxKey + 1)
          ELSE Obj(obj)

\* ----------------------------------------------------------- DeltaSnapshot

\* an auth mode that was never set
AuthUndef == "undefined"

\* the null passed as the event by _dup
NullEvent == [isNull |-> TRUE]

\* the fields of an object straight after `new`: all unset.  _isPrevious is only
\* ever tested for truth, FALSE stands for its undefined.  _apps, _ref and
\* _adminRef (the connection handles) are left out.
Blank ==
  [_path |-> Undef, _auth |-> AuthUndef, _data |-> VUndef, _delta |-> VUndef,
   _newData |-> VUndef, _childPath |-> Undef, _isPrevious |-> FALSE]

\* the first index >= from of a "/" in s, Len(s)+1 when there is none
NextSlash(s, from) ==
  IF \E j \in from..Len(s) : s[j] = "/"
  THEN CHOOSE j \in from..Len(s) : s[j] = "/" /\ \A k \in from..(j-1) : s[k] # "/"
  ELSE Len(s) + 1

\* projects/([^/]+)/instances/([^/]+)/refs(/.+)? matched with its first atom at i
MatchAt(s, i) ==
  LET p0 == i + 2
      p1 == NextSlash(s, p0)
      q0 == p1 + 3
      q1 == NextSlash(s, q0)
      ok == /\ i + 1 <= Len(s) /\ s[i] = "projects" /\ s[i+1] = "/"
            /\ p1 > p0 /\ p1 + 2 <= Len(s)
            /\ s[p1+1] = "instances" /\ s[p1+2] = "/"
            /\ q1 > q0 /\ q1 + 1 <= Len(s)
            /\ s[q1+1] = "refs"
  IN [ok |-> ok,
      project |-> IF ok THEN SubSeq(s, p0, p1 - 1) ELSE Undef,
      ref |-> IF ok /\ q1 + 3 <= Len(s) /\ s[q1+2] = "/"
              THEN SubSeq(s, q1 + 2, Len(s)) ELSE Undef]

\* event.resource.match(new RegExp(resourceRegex)): the leftmost match, if any
match(s) ==
  IF \E i \in 1..Len(s) : MatchAt(s, i).ok
  THEN MatchAt(s, CHOOSE i \in 1..Len(s) :
                    MatchAt(s, i).ok /\ \A j \in 1..(i-1) : ~MatchAt(s, j).ok)
  ELSE [ok |-> FALSE, project |-> Undef, ref |-> Undef]

\* new DeltaSnapshot(apps, event): thrown, or the object constructed
constructor(event) ==
  IF event = NullEvent THEN [thrown |-> FALSE, self |-> Blank]
  ELSE LET m == match(event.resource)
       IN IF ~m.ok THEN [thrown |-> TRUE, self |-> Blank]
          ELSE IF m.project # <<"_">> THEN [thrown |-> TRUE, self |-> Blank]
          ELSE [thrown |-> FALSE,
                self |-> [Blank EXCEPT
                            !._path = normalizePath(m.ref),
                            !._auth = event.auth,
                            !._data = event.data.data,
                            !._delta = event.data.delta,
                            !._newData = applyChange(event.data.data, event.data.delta)]]

\* _dup with _newData left out of the fields it copies
_dup_NoNewData(this, previous, childPath) ==
  LET dup1 == [Blank EXCEPT !._path = this._path, !._auth = this._auth,
                            !._data = this._data, !._delta = this._delta,
                            !._childPath = this._childPath]
      dup2 == IF previous THEN [dup1 EXCEPT !._isPrevious = TRUE] ELSE dup1
  IN IF ~Falsy(childPath)
     THEN [dup2 EXCEPT !._childPath = joinPath(dup2._childPath, childPath)]
     ELSE dup2

_dup(this, previous, childPath) ==
  LET dup0 == constructor(NullEvent).self
      dup1 == [dup0 EXCEPT !._path = this._path, !._auth = this._auth,
                           !._data = this._data, !._delta = this._delta,
                           !._childPath = this._childPath,
                           !._newData = this._newData]
      dup2 == IF previous THEN [dup1 EXCEPT !._isPrevious = TRUE] ELSE dup1
  IN IF ~Falsy(childPath)
     THEN [dup2 EXCEPT !._childPath = joinPath(dup2._childPath, childPath)]
     ELSE dup2

_fullPath(this) ==
  LET out == (IF Falsy(this._path) THEN <<>> ELSE this._path)
               \o (IF Falsy(this._childPath) THEN <<>> ELSE this._childPath)
  IN IF out = <<>> THEN <<"/">> ELSE out

\* get key(): the string, or null
key(this) ==
  LET parts == pathParts(_fullPath(this))
  IN IF parts = <<>> \/ parts[Len(parts)] = <<>> THEN VNull ELSE Str(parts[Len(parts)])

val(this) ==
  LET parts == pathParts(this._childPath)
      source == IF this._isPrevious THEN this._data ELSE this._newData
      node == cloneDeep(IF Len(parts) > 0 THEN get(source, parts, VNull) ELSE source)
  IN _checkAndConvertToArray(node)

exists(this) == val(this).t # "null"

\* the methods that may return or change the receiver give both: self, the
\* receiver as the call leaves it, and ret, the object returned
\* child that moves the receiver itself instead of duplicating it
child_InPlace(this, childPath) ==
  IF Falsy(childPath) THEN [self |-> this, ret |-> this]
  ELSE LET moved == [this EXCEPT !._childPath = joinPath(this._childPath, childPath)]
       IN [self |-> moved, ret |-> moved]

child(this, childPath) ==
  IF Falsy(childPath) THEN [self |-> this, ret |-> this]
  ELSE [self |-> this, ret |-> _dup(this, this._isPrevious, childPath)]

previous(this) ==
  IF this._isPrevious THEN [self |-> this, ret |-> this]
  ELSE [self |-> this, ret |-> _dup(this, TRUE, Undef)]

current(this) ==
  IF this._isPrevious THEN [self |-> this, ret |-> _dup(this, FALSE, Undef)]
  ELSE [self |-> this, ret |-> this]

\* changed that looks at the tree of the view instead of the delta
changed_OfView(this) ==
  valAt(IF this._isPrevious THEN this._data ELSE this._newData, this._childPath).t
    # "undefined"

changed(this) == valAt(this._delta, this._childPath).t # "undefined"

\* forEach: the views handed to the action, in order (its result is always false)
forEach(this) ==
  LET v == val(this)
  IN IF isPlainObject(v)
     THEN [i \in 1..Len(keys(v)) |-> child(this, keys(v)[i]).ret]
     ELSE <<>>

hasChild(this, childPath) == exists(child(this, childPath).ret)

\* hasChildren with typeof val === 'object' for _.isPlainObject(val)
hasChildren_Typeof(this) ==
  LET v == val(this)
  IN \/ v.t = "object" /\ Len(keys(v)) > 0
     \/ v.t = "array" /\ DOMAIN v.a # {}

hasChildren(this) ==
  LET v == val(this) IN isPlainObject(v) /\ Len(keys(v)) > 0

numChildren(this) ==
  LET v == val(this) IN IF isPlainObject(v) THEN Cardinality(Keys(v)) ELSE 0

\* ------------------------------------------------------------------ inputs

\* the longest offset, in segments, a view is navigated to
MaxDepth == 2

Bool(b) == [t |-> "boolean", b |-> b]

A == <<"a">>
B == <<"b">>
K0 == <<"0">>
K1 == <<"1">>
K3 == <<"3">>
K4 == <<"4">>
K01 == <<"0", "1">>
LENGTH == <<"length">>
Hi == Str(<<"h", "i">>)

\* the object with the given keys, all holding v
All(ks, v) == Obj([k \in ks |-> v])
\* the object {k1: v1, k2: v2}
Two(k1, v1, k2, v2) == Obj([k \in {k1, k2} |-> IF k = k1 THEN v1 ELSE v2])
One(k, v) == All({k}, v)

\* event.data.data, the tree before the write: trees to navigate in
Bases ==
  { VNull, Num(1), Two(A, Num(1), B, Num(2)), One(A, Hi), One(A, One(B, Num(1))) }

\* event.data.delta: the sparse tree of what the write changed
Deltas ==
  { VNull, One(A, Num(2)), One(B, VNull), One(A, One(B, VNull)),
    One(B, One(A, Num(1))), All({}, VNull) }

\* trees before the write whose keys look like, or unlike, array indices
Shapes ==
  { All({K0, K1, <<"2">>}, Hi), Two(K0, Num(1), K3, Num(2)),
    Two(K0, Num(1), K4, Num(2)), Two(K0, Num(1), A, Num(2)),
    Two(K01, Num(1), K1, Num(2)), One(A, Two(K0, Num(1), K1, Hi)),
    Two(LENGTH, Num(1), A, Num(2)), Two(LENGTH, Num(0), A, Num(2)),
    Two(LENGTH, Hi, A, Num(2)), All({}, VNull) }

Prefix == <<"projects", "/", "_", "/", "instances", "/", "db", "/", "refs">>

\* event.resource
Resources ==
  { Prefix,
    Prefix \o <<"/">>,
    Prefix \o <<"/", "a">>,
    Prefix \o <<"/", "a", "/", "b">>,
    Prefix \o <<"/", "a", "/">>,
    <<"projects", "/", "p", "/", "instances", "/", "db", "/", "refs", "/", "a">>,
    <<"projects", "/", "_", "/", "instances", "/", "db">>,
    <<"projects", "/", "_", "/", "instances", "/", "refs">>,
    <<"db", "/", "refs", "/", "a">>,
    <<"x", "/">> \o Prefix \o <<"/", "a">>,
    Prefix \o <<"x">> }

Event(r, au, d, dl) == [resource |-> r, auth |-> au, data |-> [data |-> d, delta |-> dl]]

\* the raw events: every resource with one write, every write of Bases x Deltas
\* at one ref, and every shape with one write
Events ==
  {Event(r, "USER", Two(A, Num(1), B, Num(2)), One(B, VNull)) : r \in Resources}
    \cup {Event(Prefix \o <<"/", "a">>, "ADMIN", d, dl) : d \in Bases, dl \in Deltas}
    \cup {Event(Prefix, "ADMIN", d, One(K1, Num(3))) : d \in Shapes}

\* the relative paths handed to child() and hasChild()
ChildPaths ==
  { Undef, <<>>, A, B, LENGTH, <<"/", "a", "/">>, <<"a", "/", "b">> }

\* ----------------------------------------------------------- state machine

VARIABLES
  event,   \* the raw event handed to the constructor
  pc,      \* "new" before construction, then "ready" or "thrown"
  snap,    \* the snapshot constructed from the event
  cur,     \* the view the handler holds: the receiver of the next call
  recv,    \* the receiver of the last call, as that call left it
  call     \* the last call: its name, argument, receiver before it, and result

vars == <<event, pc, snap, cur, recv, call>>

Call(op, arg, before, ret, visited) ==
  [op |-> op, arg |-> arg, before |-> before, ret |-> ret, visited |-> visited]

Init ==
  /\ event \in Events
  /\ pc = "new"
  /\ snap = Blank
  /\ cur = Blank
  /\ recv = Blank
  /\ call = Call("none", Undef, Blank, VUndef, <<>>)

\* dataConstructor: (raw) => new DeltaSnapshot(this.apps, raw)
Construct ==
  /\ pc = "new"
  /\ LET r == constructor(event)
     IN /\ pc' = IF r.thrown THEN "thrown" ELSE "ready"
        /\ snap' = r.self
        /\ cur' = r.self
        /\ recv' = r.self
        /\ call' = Call("new", Undef, Blank, VUndef, <<>>)
  /\ UNCHANGED event

\* a call that returns a view: the handler goes on with the view returned
Navigate(op, arg, r) ==
  /\ cur' = r.ret
  /\ recv' = r.self
  /\ call' = Call(op, arg, cur, VUndef, <<>>)
  /\ UNCHANGED <<event, pc, snap>>

\* a call that returns a value
Observe(op, arg, ret, visited) ==
  /\ recv' = cur
  /\ call' = Call(op, arg, cur, ret, visited)
  /\ UNCHANGED <<event, pc, snap, cur>>

Child ==
  /\ pc = "ready"
  /\ \E P \in ChildPaths :
       /\ Len(pathParts(joinPath(cur._childPath, P))) <= MaxDepth
       /\ Navigate("child", P, child(cur, P))

Previous == pc = "ready" /\ Navigate("previous", Undef, previous(cur))

Current == pc = "ready" /\ Navigate("current", Undef, current(cur))

KeyOf == pc = "ready" /\ Observe("key", Undef, key(cur), <<>>)

Val == pc = "ready" /\ Observe("val", Undef, val(cur), <<>>)

Exists == pc = "ready" /\ Observe("exists", Undef, Bool(exists(cur)), <<>>)

Changed == pc = "ready" /\ Observe("changed", Undef, Bool(changed(cur)), <<>>)

ForEach == pc = "ready" /\ Observe("forEach", Undef, Bool(FALSE), forEach(cur))

HasChild ==
  /\ pc = "ready"
  /\ \E P \in ChildPaths : Observe("hasChild", P, Bool(hasChild(cur, P)), <<>>)

HasChildren == pc = "ready" /\ Observe("hasChildren", Undef, Bool(hasChildren(cur)), <<>>)

NumChildren == pc = "ready" /\ Observe("numChildren", Undef, Num(numChildren(cur)), <<>>)

Next ==
  \/ Construct
  \/ Child
  \/ Previous
  \/ Current
  \/ KeyOf
  \/ Val
  \/ Exists
  \/ Changed
  \/ ForEach
  \/ HasChild
  \/ HasChildren
  \/ NumChildren

Spec == Init /\ [][Next]_vars

\* ------------------------------------------------------------------ claims

Base == event.data.data
Delta == event.data.delta
\* the segments of a view's offset
Offset(v) == pathParts(v._childPath)
\* the views the last call handed out or left behind
Views == {snap, cur, recv, call.before} \cup {call.visited[i] : i \in DOMAIN call.visited}

SameEnvelope(v) ==
  /\ v._data = Base
  /\ v._delta = Delta
  /\ v._auth = event.auth
  /\ v._path = constructor(event).self._path
  /\ v._newData = applyChange(Base, Delta)

\* C1: every view reached from the constructed snapshot by child, previous and
\* current holds the base tree, delta tree, auth context and absolute path of the
\* event and the derived tree applyChange(base, delta) of construction, and the
\* constructed snapshot stays what construction made it.
C1_FrozenDerived ==
  pc = "ready" =>
    /\ snap = constructor(event).self
    /\ \A v \in Views : call.op # "new" => SameEnvelope(v)
    /\ SameEnvelope(cur)

\* C1 witness: a pre-change view two segments down, of a write that changed the tree
C1_Witness ==
  /\ pc = "ready"
  /\ call.op = "child"
  /\ cur._isPrevious
  /\ Offset(cur) = <<A, B>>
  /\ cur._newData # cur._data
  /\ cur._newData.t = "object"

\* C2: child(P) with a non-empty P yields a view with the receiver's flag and the
\* offset joinPath(offset, P); previous yields the pre-change view and current the
\* post-change view at the receiver's offset; and the receiver (and the constructed
\* snapshot) is after the call what it was before.
C2_NavigationFrame ==
  pc = "ready" =>
    /\ (call.op = "child" /\ ~Falsy(call.arg)) =>
         /\ cur._isPrevious = call.before._isPrevious
         /\ cur._childPath = joinPath(call.before._childPath, call.arg)
    /\ call.op = "previous" =>
         cur._isPrevious /\ cur._childPath = call.before._childPath
    /\ call.op = "current" =>
         ~cur._isPrevious /\ cur._childPath = call.before._childPath
    /\ call.op \in {"child", "previous", "current"} =>
         recv = call.before /\ snap = constructor(event).self

\* C2 witness: current called on a pre-change view at offset a, reached by child
C2_Witness ==
  /\ pc = "ready"
  /\ call.op = "current"
  /\ call.before._isPrevious
  /\ Offset(call.before) = <<A>>
  /\ cur # call.before

RECURSIVE DefinedAt(_, _)
\* the tree holds a value (null included) at the segments
DefinedAt(tree, segs) ==
  IF segs = <<>> THEN tree.t # "undefined"
  ELSE /\ tree.t = "object"
       /\ segs[1] \in DOMAIN tree.o
       /\ DefinedAt(tree.o[segs[1]], Tail(segs))

\* C3: changed() is true iff the delta tree holds a value at the view's offset,
\* whatever the flag: previous.changed() = current.changed(); with base {a:1,b:2}
\* and delta {a:2} both are true at a and false at b.
C3_ChangedIgnoresFlag ==
  pc = "ready" =>
    /\ changed(cur) = DefinedAt(Delta, Offset(cur))
    /\ changed(previous(cur).ret) = changed(current(cur).ret)
    /\ call.op = "changed" => call.ret = Bool(DefinedAt(Delta, Offset(call.before)))
    /\ (Base = Two(A, Num(1), B, Num(2)) /\ Delta = One(A, Num(2))) =>
         /\ Offset(cur) = <<A>> => changed(cur)
         /\ Offset(cur) = <<B>> => ~changed(cur)

\* C3 witness: changed() called on the pre-change view at b, which the base holds
\* and the delta does not
C3_Witness ==
  /\ pc = "ready"
  /\ call.op = "changed"
  /\ call.before._isPrevious
  /\ Offset(call.before) = <<B>>
  /\ Base = Two(A, Num(1), B, Num(2))
  /\ Delta = One(A, Num(2))
  /\ call.ret = Bool(FALSE)

\* C5: hasChildren() is true iff val() is a keyed mapping with a key, numChildren()
\* is the number of keys of val() when it is a keyed mapping and 0 otherwise; a
\* node normalized to a non-empty sequence has no children and forEach visits none.
C5_ArraysHaveNoChildren ==
  pc = "ready" =>
    LET v == val(cur)
    IN /\ hasChildren(cur) = (v.t = "object" /\ DOMAIN v.o # {})
       /\ numChildren(cur) = IF v.t = "object" THEN Cardinality(DOMAIN v.o) ELSE 0
       /\ (v.t = "array" /\ DOMAIN v.a # {}) =>
            ~hasChildren(cur) /\ numChildren(cur) = 0 /\ forEach(cur) = <<>>
       /\ call.op = "hasChildren" /\ call.before = cur =>
            call.ret = Bool(v.t = "object" /\ DOMAIN v.o # {})
       /\ call.op = "numChildren" /\ call.before = cur =>
            call.ret = Num(IF v.t = "object" THEN Cardinality(DOMAIN v.o) ELSE 0)

\* C5 witness: hasChildren() answered false on a view whose val() is a sequence
C5_Witness ==
  /\ pc = "ready"
  /\ call.op = "hasChildren"
  /\ val(cur).t = "array"
  /\ val(cur).length >= 2
  /\ call.ret = Bool(FALSE)

\* the largest number among integer-literal keys, 0 for none
MaxKey(K) == IF K = {} THEN 0 ELSE CHOOSE n \in {ToNum(k) : k \in K} : \A k \in K : ToNum(k) <= n

RECURSIVE NormalizedAs(_, _)
\* r is what the normalizer is to make of node
NormalizedAs(node, r) ==
  IF IsNullish(node) THEN r = VNull
  ELSE IF node.t # "object" THEN r = node
  ELSE LET K == DOMAIN node.o
       IN IF (\A k \in K : integerRegExp(k)) /\ MaxKey(K) < 2 * Cardinality(K)
          THEN /\ r.t = "array"
               /\ DOMAIN r.a = {ToNum(k) : k \in K}
               /\ \A k \in K : NormalizedAs(node.o[k], r.a[ToNum(k)])
          ELSE /\ r.t = "object"
               /\ DOMAIN r.o = K
               /\ \A k \in K : NormalizedAs(node.o[k], r.o[k])

\* the tree a view reads
Source(v) == IF v._isPrevious THEN Base ELSE applyChange(Base, Delta)

\* the subtree val() resolves before it normalizes
Resolved(v) == IF Offset(v) = <<>> THEN Source(v) ELSE get(Source(v), Offset(v), VNull)

\* C4: val() turns a mapping into a sequence exactly when every key is an integer
\* literal and maxKey < 2 * numKeys, index i holding the normalized value of key
\* "i" and the other indices being holes; any other mapping stays a mapping with
\* the same keys and normalized children; recursively.
C4_Normalizer ==
  (pc = "ready" /\ call.op = "val") => NormalizedAs(Resolved(call.before), call.ret)

\* C6: where the tree a view reads holds no value, or null, at the offset,
\* val() = null, exists() = false, hasChildren() = false and numChildren() = 0;
\* a key the delta set to null does not exist in the current view.
C6_AbsentReadsNull ==
  pc = "ready" =>
    LET x == valAtParts(Source(cur), Offset(cur))
    IN IsNullish(x) =>
         /\ val(cur) = VNull
         /\ ~exists(cur)
         /\ ~hasChildren(cur)
         /\ numChildren(cur) = 0

\* C7: key() is the last segment of the event's path followed by the view's
\* offset, null only at the root; child(P).key() is the last segment of P.
C7_KeyIsLastSegment ==
  pc = "ready" =>
    /\ call.op = "key" =>
         LET segs == pathParts(snap._path) \o Offset(call.before)
         IN call.ret = IF segs = <<>> THEN VNull ELSE Str(segs[Len(segs)])
    /\ (call.op = "child" /\ ~Falsy(call.arg) /\ pathParts(call.arg) # <<>>) =>
         key(cur) = Str(pathParts(call.arg)[Len(pathParts(call.arg))])

\* the resource is projects/<project>/instances/<id>/refs(/<path>)? and no more:
\* its project and path, when it is
Grammar(s) ==
  LET p1 == NextSlash(s, 3)
      q1 == NextSlash(s, p1 + 3)
      ok == /\ Len(s) >= 2 /\ s[1] = "projects" /\ s[2] = "/"
            /\ p1 > 3 /\ p1 + 2 <= Len(s)
            /\ s[p1+1] = "instances" /\ s[p1+2] = "/"
            /\ q1 > p1 + 3 /\ q1 + 1 <= Len(s)
            /\ s[q1+1] = "refs"
            /\ (Len(s) = q1 + 1 \/ s[q1+2] = "/")
  IN [ok |-> ok,
      project |-> IF ok THEN SubSeq(s, 3, p1 - 1) ELSE Undef,
      path |-> IF ok THEN SubSeq(s, q1 + 2, Len(s)) ELSE Undef]

\* C8: construction throws whenever the resource is not of the form
\* projects/<project>/instances/<id>/refs(/<path>)? or its project is not "_";
\* otherwise it succeeds with the normalized <path> as the absolute path.
C8_ResourceGrammar ==
  pc # "new" =>
    LET g == Grammar(event.resource)
    IN IF g.ok /\ g.project = <<"_">>
       THEN pc = "ready" /\ snap._path = normalizePath(g.path)
       ELSE pc = "thrown"

\* C9: where changed() is false, the pre-change and the post-change view read
\* the same value.
C9_ChangedIsSound ==
  pc = "ready" =>
    (~changed(cur) => val(previous(cur).ret) = val(current(cur).ret))

\* C10: on a view whose val() is a keyed mapping, forEach hands out one view per
\* key, with the flag of the receiver, each of which exists, and numChildren() is
\* the number of keys k with hasChild(k).
C10_EnumerationAgrees ==
  (pc = "ready" /\ val(cur).t = "object") =>
    LET K == DOMAIN val(cur).o
        seen == forEach(cur)
    IN /\ Len(seen) = Cardinality(K)
       /\ {Offset(seen[i]) : i \in DOMAIN seen} = {Offset(cur) \o <<k>> : k \in K}
       /\ \A i \in DOMAIN seen : seen[i]._isPrevious = cur._isPrevious
       /\ \A i \in DOMAIN seen : exists(seen[i])
       /\ numChildren(cur) = Cardinality({k \in K : hasChild(cur, k)})

====
